---- MODULE Spec2Model ----
(***************************************************************************)
(* Bike-share Voronoi map.  Two programs are modelled:                     *)
(*   - the application of src/unnamed/part_000 (stations, constraints,     *)
(*     update(), the load callbacks and the marker handlers), under Spec;  *)
(*   - the clipping helpers of src/src/main.ts (closePolygons,             *)
(*     createTurfPolygons, polygonIntersection, removeIntersection),       *)
(*     under SpecClip.                                                     *)
(* The geometry module imported by part_000 as gutils is not among the     *)
(* sources; its functions are modelled from sections 4.1-4.3 of the        *)
(* specification.  Coordinates are integers.  Stations lie on one row      *)
(* (lng = 1) at odd latitudes, so every Voronoi cell is an axis-aligned    *)
(* rectangle with integer corners, and the constraint polygons are         *)
(* axis-aligned rectangles (or degenerate rings), so that intersection and *)
(* difference are computed exactly.                                        *)
(***************************************************************************)
EXTENDS Integers, Sequences, FiniteSets, TLC

\* ------------------------------------------------------------------ bounds
\* largest station list a map click may build
MaxStations == 3

\* --------------------------------------------------------- small utilities
Min(S) == CHOOSE x \in S : \A y \in S : x <= y
Max(S) == CHOOSE x \in S : \A y \in S : x >= y
Abs(x) == IF x < 0 THEN 0 - x ELSE x
Lat(p) == p[1]
Lng(p) == p[2]
PointSet(poly) == {poly[i] : i \in 1..Len(poly)}
SeqMap(Op(_), s) == [i \in 1..Len(s) |-> Op(s[i])]
\* Array.prototype.filter: the elements satisfying Keep, in their order
Filter(s, Keep(_)) == SelectSeq(s, Keep)
\* Array.prototype.findIndex, 0-based, -1 when nothing matches
FindIndex(s, Test(_)) ==
  IF \E i \in 1..Len(s) : Test(s[i])
  THEN Min({i \in 1..Len(s) : Test(s[i])}) - 1
  ELSE 0 - 1
\* Array.prototype.splice(index, 1): a negative index counts from the end
Splice1(s, index) ==
  LET start == IF index < 0 THEN Max({Len(s) + index, 0}) ELSE Min({index, Len(s)})
  IN  [i \in 1..(Len(s) - (IF start < Len(s) THEN 1 ELSE 0)) |->
         IF i <= start THEN s[i] ELSE s[i + 1]]

\* ------------------------------------------------------------ input domains
\* coordinates a map click, a drag or a dataset row can carry
Positions == {<<1, 1>>, <<3, 1>>, <<5, 1>>, <<7, 1>>}
\* createStation: the coordinates of a station (name and icon are display
\* metadata that no computation reads)
createStation(lat, lng) == [lat |-> lat, lng |-> lng]
Pos(s) == <<s.lat, s.lng>>
StationAt(p) == createStation(Lat(p), Lng(p))
\* rows delivered to the loadStations callback, per dataset; the remote
\* bike feed may also answer with an empty station list
BikeRows == <<<<1, 1>>, <<3, 1>>, <<5, 1>>>>
MetroRows == <<<<5, 1>>, <<7, 1>>>>
Responses(ds) == IF ds = "bike" THEN {BikeRows, <<>>} ELSE {MetroRows}
\* contents of the constraints file handed to the loadConstraints callback
OuterRect == <<<<0, 0>>, <<0, 2>>, <<6, 2>>, <<6, 0>>>>
InnerRect == <<<<2, 0>>, <<2, 2>>, <<4, 2>>, <<4, 0>>>>
ConstraintFiles ==
  { [outer |-> OuterRect, inner |-> <<InnerRect>>],
    [outer |-> OuterRect, inner |-> <<>>],
    [outer |-> <<>>,      inner |-> <<InnerRect>>] }

\* ------------------------------------------- geometry (gutils, spec 4.1-4.3)
\* tolerance of pointsEqual in grid units: deltas below it mean equal
Epsilon == 1
gutils_pointsEqual(a, b) == Abs(Lat(a) - Lat(b)) < Epsilon /\ Abs(Lng(a) - Lng(b)) < Epsilon
\* close(polygon): append the first point unless the ring is already closed
gutils_polygonClose(poly) ==
  IF Len(poly) = 0 \/ gutils_pointsEqual(poly[1], poly[Len(poly)]) THEN poly
  ELSE Append(poly, poly[1])
\* the edge a-b crosses the ray cast from pt (even-odd rule, integer form of
\* lat < (b.lat - a.lat) * (lng - a.lng) / (b.lng - a.lng) + a.lat)
Crosses(pt, a, b) ==
  /\ (Lng(a) > Lng(pt)) # (Lng(b) > Lng(pt))
  /\ LET d == Lng(b) - Lng(a)
         lhs == (Lat(pt) - Lat(a)) * d
         rhs == (Lat(b) - Lat(a)) * (Lng(pt) - Lng(a))
     IN  IF d > 0 THEN lhs < rhs ELSE lhs > rhs
gutils_pointInPolygon(pt, poly) ==
  Cardinality({i \in 1..Len(poly) :
                 Crosses(pt, poly[i], poly[IF i = 1 THEN Len(poly) ELSE i - 1])}) % 2 = 1
\* bounding box of a non-empty set of points
Extent(pts) ==
  [lat1 |-> Min({Lat(p) : p \in pts}), lat2 |-> Max({Lat(p) : p \in pts}),
   lng1 |-> Min({Lng(p) : p \in pts}), lng2 |-> Max({Lng(p) : p \in pts})]
Corners(b) == {<<b.lat1, b.lng1>>, <<b.lat1, b.lng2>>, <<b.lat2, b.lng2>>, <<b.lat2, b.lng1>>}
BoxRing(b) == <<<<b.lat1, b.lng1>>, <<b.lat1, b.lng2>>, <<b.lat2, b.lng2>>, <<b.lat2, b.lng1>>>>
\* isDegenerate: fewer than 3 distinct points remain after closing
gutils_isDegenerate(poly) == Cardinality(PointSet(gutils_polygonClose(poly))) < 3
\* the ring is an axis-aligned rectangle of positive area
IsBox(poly) ==
  /\ Len(poly) > 0
  /\ LET b == Extent(PointSet(poly))
     IN  /\ b.lat1 < b.lat2 /\ b.lng1 < b.lng2
         /\ PointSet(poly) = Corners(b)
         /\ \A i \in 1..(Len(poly) - 1) :
              Lat(poly[i]) = Lat(poly[i + 1]) \/ Lng(poly[i]) = Lng(poly[i + 1])
\* the two representations of the clipper's "explicit empty/absent value":
\* an absent (falsy) value or an empty ring (a truthy array of length 0)
EmptyKinds == {"absent", "empty"}
Absent == [absent |-> TRUE, ring |-> <<>>]
EmptyResult(e) == [absent |-> (e = "absent"), ring |-> <<>>]
Ring(poly) == [absent |-> FALSE, ring |-> poly]
\* the common part of two boxes (lat1 >= lat2 or lng1 >= lng2: no area)
BoxMeet(a, b) ==
  [lat1 |-> Max({a.lat1, b.lat1}), lat2 |-> Min({a.lat2, b.lat2}),
   lng1 |-> Max({a.lng1, b.lng1}), lng2 |-> Min({a.lng2, b.lng2})]
HasArea(b) == b.lat1 < b.lat2 /\ b.lng1 < b.lng2
\* the rectangles overlap in a region of positive area
Overlap(A, B) ==
  /\ IsBox(A) /\ IsBox(B)
  /\ HasArea(BoxMeet(Extent(PointSet(A)), Extent(PointSet(B))))
\* intersect(A, B): the overlapping area as a new closed ring, or the empty
\* result when they do not overlap or an input is degenerate
gutils_polygonIntersection(A, B, e) ==
  IF gutils_isDegenerate(A) \/ gutils_isDegenerate(B) \/ ~Overlap(A, B) THEN EmptyResult(e)
  ELSE Ring(gutils_polygonClose(BoxRing(BoxMeet(Extent(PointSet(A)), Extent(PointSet(B))))))
\* difference(A, B): A when they do not overlap, empty when B covers A,
\* otherwise A with the overlap removed; a remainder that is not one
\* rectangle (two parts, a notch, a hole) is not representable: absent
gutils_polygonMinus(A, B, e) ==
  IF gutils_isDegenerate(A) \/ gutils_isDegenerate(B) \/ ~Overlap(A, B) THEN Ring(A)
  ELSE LET a == Extent(PointSet(A))
           m == BoxMeet(a, Extent(PointSet(B)))
       IN  IF m = a THEN EmptyResult(e)
           ELSE IF m.lng1 = a.lng1 /\ m.lng2 = a.lng2 /\ m.lat1 = a.lat1
                THEN Ring(gutils_polygonClose(BoxRing([a EXCEPT !.lat1 = m.lat2])))
           ELSE IF m.lng1 = a.lng1 /\ m.lng2 = a.lng2 /\ m.lat2 = a.lat2
                THEN Ring(gutils_polygonClose(BoxRing([a EXCEPT !.lat2 = m.lat1])))
           ELSE IF m.lat1 = a.lat1 /\ m.lat2 = a.lat2 /\ m.lng1 = a.lng1
                THEN Ring(gutils_polygonClose(BoxRing([a EXCEPT !.lng1 = m.lng2])))
           ELSE IF m.lat1 = a.lat1 /\ m.lat2 = a.lat2 /\ m.lng2 = a.lng2
                THEN Ring(gutils_polygonClose(BoxRing([a EXCEPT !.lng2 = m.lng1])))
           ELSE Absent
\* padding of the diagram's bounding box around the extent it is derived from
Margin == 1
\* bounding box of the diagram: the extent of the bounding points (the outer
\* polygon), or of the sites themselves when there are none, padded
voronoiBounds(sites, boundPts) ==
  LET b == Extent(IF boundPts = {} THEN sites ELSE boundPts)
  IN  [lat1 |-> b.lat1 - Margin, lat2 |-> b.lat2 + Margin,
       lng1 |-> b.lng1 - Margin, lng2 |-> b.lng2 + Margin]
\* cell of site p among collinear sites of one row: the strip between the
\* bisectors towards its two neighbours, closed against the bounding box
voronoiCell(p, sites, box) ==
  LET lower == {Lat(q) : q \in {r \in sites : Lat(r) < Lat(p)}}
      upper == {Lat(q) : q \in {r \in sites : Lat(r) > Lat(p)}}
      lo == IF lower = {} THEN box.lat1 ELSE Max({box.lat1, (Lat(p) + Max(lower)) \div 2})
      hi == IF upper = {} THEN box.lat2 ELSE Min({box.lat2, (Lat(p) + Min(upper)) \div 2})
  IN  BoxRing([box EXCEPT !.lat1 = lo, !.lat2 = hi])
\* generate(points): one cell per point in input order; 0 or 1 point gives
\* an empty cell list
gutils_voronoi(points, boundPoly) ==
  IF Len(points) < 2 THEN <<>>
  ELSE LET sites == PointSet(points)
           box == voronoiBounds(sites, PointSet(boundPoly))
       IN  [i \in 1..Len(points) |-> voronoiCell(points[i], sites, box)]

\* ------------------------------------------------ state of part_000 (Spec)
VARIABLES
  stations,         \* list of stations (lat, lng)
  constraints,      \* [outer: ring, inner: list of rings]
  voronoiPolygons,  \* the cells, one ring each
  boolMarkers,      \* show markers on the map
  boolConstraints,  \* constraints active
  dataset,          \* dataset named by the last load button
  markers,          \* positions of the markers on layer_stations
  pending,          \* asynchronous loads in flight
  \* locals of the last call of update()
  ran,              \* "none" never called, "early" returned at the
                    \* empty-list test, "off" / "on" ran without / with
                    \* constraints
  filterIn,         \* the station list handed to applyConstraintsToPoints
  cellsRaw,         \* the cells as gutils.voronoi returned them
  cellsOuter,       \* the cells after the outer-clip loop
  \* outcome of the last handler
  missed,           \* its findIndex matched no station (index = -1)
  threw,            \* it ended in an uncaught TypeError
  facilities        \* positions loaded or added and not removed or replaced

appVars == <<stations, constraints, voronoiPolygons, boolMarkers, boolConstraints,
             dataset, markers, pending,
             ran, filterIn, cellsRaw, cellsOuter, missed, threw, facilities>>

\* --------------------------------------- state of the main.ts calls (SpecClip)
\* A JavaScript array of points is [pts, closedRef]: the point values in order,
\* and whether its last element is the very object that is its first element
\* (what polygon[0] !== polygon[polygon.length - 1] tests).
VARIABLES
  polygon1,         \* the array passed as first argument, as it is now
  polygon2,         \* the array passed as second argument, as it is now
  arg1,             \* polygon1 as it was when the last call was made
  arg2,             \* polygon2 as it was when the last call was made
  ret,              \* what the last call returned
  handed,           \* the last call handed its operands to turf
  called            \* the function last called ("none": no call yet)

clipVars == <<polygon1, polygon2, arg1, arg2, ret, handed, called>>

\* ------------------------- position inside a running update() (SpecSteps)
VARIABLES
  pc,               \* the statement of update() that runs next; "idle"
                    \* between two handlers
  loopI,            \* i of the running loop of applyConstraintsToVoronoi
  loopJ             \* j of its second loop

stepVars == <<pc, loopI, loopJ>>

\* ------------------------------------------- history of the loads (SpecLoads)
VARIABLE
  log               \* the load-button presses and load callbacks so far, in
                    \* the order they ran

vars == <<appVars, clipVars, stepVars, log>>

Datasets == {"bike", "metro"}

\* remove points that are outside the outer constraint or inside an inner one
RECURSIVE filterInner(_, _)
filterInner(st, inner) ==
  IF Len(inner) = 0 THEN st
  ELSE filterInner(Filter(st, LAMBDA s : ~gutils_pointInPolygon(Pos(s), Head(inner))), Tail(inner))
\* variants of applyConstraintsToPoints with a plausible slip
applyConstraintsToPoints_OuterOnly(st, cons) ==
  IF Len(cons.outer) = 0 THEN st
  ELSE Filter(st, LAMBDA s : gutils_pointInPolygon(Pos(s), cons.outer))
applyConstraintsToPoints_NoSkip(st, cons) ==
  IF Len(cons.outer) = 0 THEN filterInner(st, cons.inner)
  ELSE filterInner(Filter(st, LAMBDA s : gutils_pointInPolygon(Pos(s), cons.outer)), cons.inner)
applyConstraintsToPoints(st, cons) ==
  IF Len(cons.outer) = 0 THEN st
  ELSE filterInner(Filter(st, LAMBDA s : gutils_pointInPolygon(Pos(s), cons.outer)), cons.inner)

\* first loop of applyConstraintsToVoronoi: clip one cell to the outer polygon
\* variant of clipOuter that installs whatever the intersection returned
clipOuter_Install(cell, outer, e) == gutils_polygonIntersection(cell, outer, e).ring
clipOuter(cell, outer, e) ==
  LET new_polygon == gutils_polygonIntersection(cell, outer, e)
  IN  IF new_polygon.absent THEN cell
      ELSE IF Len(new_polygon.ring) < 3 THEN cell
      ELSE new_polygon.ring
\* second loop: subtract the obstacles from one cell, one after the other
RECURSIVE minusInner(_, _, _)
minusInner(cell, inner, e) ==
  IF Len(inner) = 0 THEN cell
  ELSE LET new_polygon == gutils_polygonMinus(cell, Head(inner), e)
       IN  minusInner(IF new_polygon.absent THEN cell ELSE new_polygon.ring, Tail(inner), e)
applyConstraintsToVoronoi(cells, cons, e) ==
  LET clipped == [i \in 1..Len(cells) |-> clipOuter(cells[i], cons.outer, e)]
  IN  [outer |-> clipped,
       final |-> [i \in 1..Len(cells) |-> minusInner(clipped[i], cons.inner, e)]]

\* variant of update() that generates the diagram before it filters
update_VoronoiFirst(st, cons, bc, bm, e) ==
  IF Len(st) = 0
  THEN [stations |-> st, voronoiPolygons |-> voronoiPolygons, markers |-> markers,
        ran |-> "early", filterIn |-> <<>>, cellsRaw |-> <<>>, cellsOuter |-> <<>>]
  ELSE IF bc
  THEN LET kept == applyConstraintsToPoints(st, cons)
           raw == gutils_voronoi(SeqMap(Pos, st), cons.outer)
           cl == applyConstraintsToVoronoi(raw, cons, e)
       IN  [stations |-> kept, voronoiPolygons |-> cl.final,
            markers |-> IF bm THEN {Pos(kept[i]) : i \in 1..Len(kept)} ELSE {},
            ran |-> "on", filterIn |-> st, cellsRaw |-> raw, cellsOuter |-> cl.outer]
  ELSE LET raw == gutils_voronoi(SeqMap(Pos, st), SeqMap(Pos, st))
       IN  [stations |-> st, voronoiPolygons |-> raw,
            markers |-> IF bm THEN {Pos(st[i]) : i \in 1..Len(st)} ELSE {},
            ran |-> "off", filterIn |-> <<>>, cellsRaw |-> raw, cellsOuter |-> <<>>]
\* update(): recalculate and redraw.  st, cons, bc, bm are the globals as the
\* calling handler left them; the result gives the globals it leaves
update(st, cons, bc, bm, e) ==
  IF Len(st) = 0
  THEN [stations |-> st, voronoiPolygons |-> voronoiPolygons, markers |-> markers,
        ran |-> "early", filterIn |-> <<>>, cellsRaw |-> <<>>, cellsOuter |-> <<>>]
  ELSE IF bc
  THEN LET kept == applyConstraintsToPoints(st, cons)
           raw == gutils_voronoi(SeqMap(Pos, kept), cons.outer)
           cl == applyConstraintsToVoronoi(raw, cons, e)
       IN  [stations |-> kept, voronoiPolygons |-> cl.final,
            markers |-> IF bm THEN {Pos(kept[i]) : i \in 1..Len(kept)} ELSE {},
            ran |-> "on", filterIn |-> st, cellsRaw |-> raw, cellsOuter |-> cl.outer]
  ELSE LET raw == gutils_voronoi(SeqMap(Pos, st), SeqMap(Pos, st))
       IN  [stations |-> st, voronoiPolygons |-> raw,
            markers |-> IF bm THEN {Pos(st[i]) : i \in 1..Len(st)} ELSE {},
            ran |-> "off", filterIn |-> <<>>, cellsRaw |-> raw, cellsOuter |-> <<>>]
\* the handler ends with update(): install what it leaves
Updated(st, cons, bc, bm) ==
  \E e \in EmptyKinds :
    \E u \in {update(st, cons, bc, bm, e)} :
        /\ stations' = u.stations
        /\ voronoiPolygons' = u.voronoiPolygons
        /\ markers' = u.markers
        /\ ran' = u.ran
        /\ filterIn' = u.filterIn
        /\ cellsRaw' = u.cellsRaw
        /\ cellsOuter' = u.cellsOuter

StepIdle == pc = "idle" /\ loopI = 0 /\ loopJ = 0

\* init(); loadConstraints(); loadStations(): two loads are in flight
AppInit ==
  /\ stations = <<>>
  /\ constraints = [outer |-> <<>>, inner |-> <<>>]
  /\ voronoiPolygons = <<>>
  /\ boolMarkers = TRUE
  /\ boolConstraints = FALSE
  /\ dataset = "bike"
  /\ markers = {}
  /\ pending = {"constraints", "bike"}
  /\ ran = "none" /\ filterIn = <<>> /\ cellsRaw = <<>> /\ cellsOuter = <<>>
  /\ missed = FALSE /\ threw = FALSE
  /\ facilities = {}
  /\ StepIdle /\ log = <<>>

Arr(pts, closedRef) == [pts |-> pts, closedRef |-> closedRef]
NotCalled == [kind |-> "notcalled", pts |-> <<>>, alias |-> "none"]
ClipIdle ==
  /\ polygon1 = Arr(<<>>, FALSE) /\ polygon2 = Arr(<<>>, FALSE)
  /\ arg1 = Arr(<<>>, FALSE) /\ arg2 = Arr(<<>>, FALSE)
  /\ ret = NotCalled /\ handed = FALSE /\ called = "none"

Init == AppInit /\ ClipIdle

\* map click on a free spot (a click on a marker goes to the marker); with
\* markers hidden the handler does nothing
MapClick(p) ==
  /\ boolMarkers
  /\ p \notin markers
  /\ p \notin {Pos(stations[i]) : i \in 1..Len(stations)}
  /\ Len(stations) < MaxStations
  /\ Updated(Append(stations, StationAt(p)), constraints, boolConstraints, boolMarkers)
  /\ facilities' = facilities \cup {p}
  /\ missed' = FALSE /\ threw' = FALSE
  /\ UNCHANGED <<constraints, boolMarkers, boolConstraints, dataset, pending>>

\* 'Load bike stations' / 'Load metro stations'
PressLoad(ds) ==
  /\ ds \notin pending
  /\ dataset' = ds
  /\ pending' = pending \cup {ds}
  /\ missed' = FALSE /\ threw' = FALSE
  /\ UNCHANGED <<stations, constraints, voronoiPolygons, boolMarkers, boolConstraints,
                 markers, facilities, ran, filterIn, cellsRaw, cellsOuter>>

\* the callback of loadStations runs with the rows of the requested file
StationsLoaded(ds, rows) ==
  /\ ds \in pending
  /\ pending' = pending \ {ds}
  /\ Updated(SeqMap(StationAt, rows), constraints, boolConstraints, boolMarkers)
  /\ facilities' = PointSet(rows)
  /\ missed' = FALSE /\ threw' = FALSE
  /\ UNCHANGED <<constraints, boolMarkers, boolConstraints, dataset>>

\* variant of the callback of loadConstraints that does not call update()
ConstraintsLoaded_NoUpdate(data) ==
  /\ "constraints" \in pending
  /\ pending' = pending \ {"constraints"}
  /\ constraints' = [outer |-> gutils_polygonClose(data.outer),
                     inner |-> SeqMap(gutils_polygonClose, data.inner)]
  /\ missed' = FALSE /\ threw' = FALSE
  /\ UNCHANGED <<stations, voronoiPolygons, markers, ran, filterIn, cellsRaw, cellsOuter>>
  /\ UNCHANGED <<boolMarkers, boolConstraints, dataset, facilities>>
\* the callback of loadConstraints: convert, close the polygons, update
ConstraintsLoaded(data) ==
  /\ "constraints" \in pending
  /\ pending' = pending \ {"constraints"}
  /\ constraints' = [outer |-> gutils_polygonClose(data.outer),
                     inner |-> SeqMap(gutils_polygonClose, data.inner)]
  /\ Updated(stations, constraints', boolConstraints, boolMarkers)
  /\ missed' = FALSE /\ threw' = FALSE
  /\ UNCHANGED <<boolMarkers, boolConstraints, dataset, facilities>>

ToggleMarkers ==
  /\ boolMarkers' = ~boolMarkers
  /\ Updated(stations, constraints, boolConstraints, boolMarkers')
  /\ missed' = FALSE /\ threw' = FALSE
  /\ UNCHANGED <<constraints, boolConstraints, dataset, pending, facilities>>

ToggleConstraints ==
  /\ boolConstraints' = ~boolConstraints
  /\ Updated(stations, constraints, boolConstraints', boolMarkers)
  /\ missed' = FALSE /\ threw' = FALSE
  /\ UNCHANGED <<constraints, boolMarkers, dataset, pending, facilities>>

\* a marker at m is dragged to the free spot to: dragstart saves its position
\* in dragStart, dragend looks the station up by that position and moves it.
\* dragStart is written by every dragstart before dragend reads it, so it is
\* a local of the gesture.  With no match stations[-1] is undefined and the
\* first assignment throws a TypeError: nothing else runs.
MarkerDrag(m, to) ==
  /\ m \in markers
  /\ to = m \/ to \notin {Pos(stations[i]) : i \in 1..Len(stations)}
  /\ LET dragStart == m
         index == FindIndex(stations, LAMBDA p : gutils_pointsEqual(Pos(p), dragStart))
     IN  /\ missed' = (index < 0)
         /\ IF index < 0
            THEN /\ threw' = TRUE
                 /\ UNCHANGED <<stations, voronoiPolygons, markers, facilities,
                                ran, filterIn, cellsRaw, cellsOuter>>
            ELSE /\ threw' = FALSE
                 /\ Updated([stations EXCEPT ![index + 1] = StationAt(to)],
                            constraints, boolConstraints, boolMarkers)
                 /\ facilities' = (facilities \ {m}) \cup {to}
  /\ UNCHANGED <<constraints, boolMarkers, boolConstraints, dataset, pending>>

\* click on the marker at m: look the station up by position and remove it;
\* splice(-1, 1) removes the last station, if there is one
MarkerClick(m) ==
  /\ m \in markers
  /\ LET index == FindIndex(stations, LAMBDA p : gutils_pointsEqual(Pos(p), m))
     IN  /\ missed' = (index < 0)
         /\ Updated(Splice1(stations, index), constraints, boolConstraints, boolMarkers)
         /\ facilities' = IF index < 0 THEN facilities ELSE facilities \ {m}
  /\ threw' = FALSE
  /\ UNCHANGED <<constraints, boolMarkers, boolConstraints, dataset, pending>>

Next ==
  \/ \E p \in Positions : MapClick(p) /\ UNCHANGED <<clipVars, stepVars, log>>
  \/ \E ds \in Datasets : PressLoad(ds) /\ UNCHANGED <<clipVars, stepVars, log>>
  \/ \E ds \in Datasets : \E rows \in Responses(ds) : StationsLoaded(ds, rows) /\ UNCHANGED <<clipVars, stepVars, log>>
  \/ \E data \in ConstraintFiles : ConstraintsLoaded(data) /\ UNCHANGED <<clipVars, stepVars, log>>
  \/ ToggleMarkers /\ UNCHANGED <<clipVars, stepVars, log>>
  \/ ToggleConstraints /\ UNCHANGED <<clipVars, stepVars, log>>
  \/ \E m \in Positions : \E to \in Positions : MarkerDrag(m, to) /\ UNCHANGED <<clipVars, stepVars, log>>
  \/ \E m \in Positions : MarkerClick(m) /\ UNCHANGED <<clipVars, stepVars, log>>

Spec == Init /\ [][Next]_vars

\* ----------------------------- part_000: the asynchronous loads (SpecLoads)
\* The handlers above, with the presses of the load buttons and the load
\* callbacks written to log.  The constraints flag is set before the first
\* of them and stays as it is from then on.
MaxLog == 6
Logged(ev, ds, data) ==
  /\ Len(log) < MaxLog
  /\ log' = Append(log, [ev |-> ev, ds |-> ds, data |-> data])
NextLoads ==
  \/ ToggleConstraints /\ log = <<>> /\ UNCHANGED <<clipVars, stepVars, log>>
  \/ \E ds \in Datasets :
       PressLoad(ds) /\ Logged("press", ds, <<>>) /\ UNCHANGED <<clipVars, stepVars>>
  \/ \E ds \in Datasets : \E rows \in Responses(ds) :
       StationsLoaded(ds, rows) /\ Logged("stations", ds, rows) /\ UNCHANGED <<clipVars, stepVars>>
  \/ \E data \in ConstraintFiles :
       ConstraintsLoaded(data) /\ Logged("constraints", "none", data) /\ UNCHANGED <<clipVars, stepVars>>
SpecLoads == Init /\ [][NextLoads]_vars

\* ------------------------------- part_000: update() by statement (SpecSteps)
\* A handler changes the globals and calls update(); update() then runs
\* statement by statement to its end before the next handler starts.
Begin(st, cons, bc) ==
  /\ pc = "idle"
  /\ stations' = st /\ constraints' = cons /\ boolConstraints' = bc
  /\ pc' = "update"
  /\ UNCHANGED <<voronoiPolygons, boolMarkers, dataset, markers, ran, filterIn,
                 cellsRaw, cellsOuter, missed, threw, facilities, loopI, loopJ>>
StepMapClick(p) ==
  /\ boolMarkers
  /\ p \notin {Pos(stations[i]) : i \in 1..Len(stations)}
  /\ Len(stations) < MaxStations
  /\ Begin(Append(stations, StationAt(p)), constraints, boolConstraints)
  /\ UNCHANGED pending
StepStationsLoaded(ds, rows) ==
  /\ ds \in pending
  /\ pending' = pending \ {ds}
  /\ Begin(SeqMap(StationAt, rows), constraints, boolConstraints)
StepConstraintsLoaded(data) ==
  /\ "constraints" \in pending
  /\ pending' = pending \ {"constraints"}
  /\ Begin(stations, [outer |-> gutils_polygonClose(data.outer),
                      inner |-> SeqMap(gutils_polygonClose, data.inner)], boolConstraints)
StepToggleConstraints ==
  /\ Begin(stations, constraints, ~boolConstraints)
  /\ UNCHANGED pending

\* what no statement of update() writes
UpdateKeeps ==
  UNCHANGED <<constraints, boolMarkers, boolConstraints, dataset, pending,
              missed, threw, facilities>>
\* if (stations == null || stations.length == 0) return; if (boolConstraints)
UpdateTest ==
  /\ pc = "update"
  /\ pc' = IF Len(stations) = 0 THEN "idle"
           ELSE IF boolConstraints THEN "filter" ELSE "voronoi"
  /\ ran' = IF Len(stations) = 0 THEN "early"
            ELSE IF boolConstraints THEN "on" ELSE "off"
  /\ filterIn' = <<>> /\ cellsRaw' = <<>> /\ cellsOuter' = <<>>
  /\ UNCHANGED <<stations, voronoiPolygons, markers, loopI, loopJ>>
  /\ UpdateKeeps
\* applyConstraintsToPoints();
UpdateFilter ==
  /\ pc = "filter"
  /\ filterIn' = stations
  /\ stations' = applyConstraintsToPoints(stations, constraints)
  /\ pc' = "voronoi"
  /\ UNCHANGED <<voronoiPolygons, markers, ran, cellsRaw, cellsOuter, loopI, loopJ>>
  /\ UpdateKeeps
\* [voronoiPolygons, bounds] = gutils.voronoi(stations, ...), in either branch
UpdateVoronoi ==
  /\ pc = "voronoi"
  /\ voronoiPolygons' =
       gutils_voronoi(SeqMap(Pos, stations),
                      IF boolConstraints THEN constraints.outer ELSE SeqMap(Pos, stations))
  /\ cellsRaw' = voronoiPolygons'
  /\ pc' = IF boolConstraints THEN "clip" ELSE "draw"
  /\ UNCHANGED <<stations, markers, ran, filterIn, cellsOuter, loopI, loopJ>>
  /\ UpdateKeeps
\* variant of the first loop that subtracts the obstacles from a cell as soon
\* as it has clipped it
UpdateClip_AndMinus ==
  /\ pc = "clip"
  /\ IF loopI < Len(voronoiPolygons)
     THEN /\ \E e \in EmptyKinds :
               voronoiPolygons' =
                 [voronoiPolygons EXCEPT ![loopI + 1] =
                    minusInner(clipOuter(@, constraints.outer, e), constraints.inner, e)]
          /\ loopI' = loopI + 1
          /\ UNCHANGED <<pc, loopJ, cellsOuter>>
     ELSE /\ pc' = "minus" /\ loopI' = 0 /\ loopJ' = 0
          /\ cellsOuter' = voronoiPolygons
          /\ UNCHANGED voronoiPolygons
  /\ UNCHANGED <<stations, markers, ran, filterIn, cellsRaw>>
  /\ UpdateKeeps
\* first loop of applyConstraintsToVoronoi: one test of i, one body
UpdateClip ==
  /\ pc = "clip"
  /\ IF loopI < Len(voronoiPolygons)
     THEN /\ \E e \in EmptyKinds :
               voronoiPolygons' =
                 [voronoiPolygons EXCEPT ![loopI + 1] = clipOuter(@, constraints.outer, e)]
          /\ loopI' = loopI + 1
          /\ UNCHANGED <<pc, loopJ, cellsOuter>>
     ELSE /\ pc' = "minus" /\ loopI' = 0 /\ loopJ' = 0
          /\ cellsOuter' = voronoiPolygons
          /\ UNCHANGED voronoiPolygons
  /\ UNCHANGED <<stations, markers, ran, filterIn, cellsRaw>>
  /\ UpdateKeeps
\* second loop: one test of i or j, one body
UpdateMinus ==
  /\ pc = "minus"
  /\ IF loopI >= Len(voronoiPolygons)
     THEN pc' = "draw" /\ UNCHANGED <<voronoiPolygons, loopI, loopJ>>
     ELSE IF loopJ >= Len(constraints.inner)
     THEN loopI' = loopI + 1 /\ loopJ' = 0 /\ UNCHANGED <<voronoiPolygons, pc>>
     ELSE /\ \E e \in EmptyKinds :
               \E new_polygon \in {gutils_polygonMinus(voronoiPolygons[loopI + 1],
                                                      constraints.inner[loopJ + 1], e)} :
                 voronoiPolygons' =
                   [voronoiPolygons EXCEPT ![loopI + 1] =
                      IF new_polygon.absent THEN @ ELSE new_polygon.ring]
          /\ loopJ' = loopJ + 1
          /\ UNCHANGED <<pc, loopI>>
  /\ UNCHANGED <<stations, markers, ran, filterIn, cellsRaw, cellsOuter>>
  /\ UpdateKeeps
\* map cleanup and drawing; the markers if boolMarkers
UpdateDraw ==
  /\ pc = "draw"
  /\ markers' = IF boolMarkers THEN {Pos(stations[i]) : i \in 1..Len(stations)} ELSE {}
  /\ pc' = "idle" /\ loopI' = 0 /\ loopJ' = 0
  /\ UNCHANGED <<stations, voronoiPolygons, ran, filterIn, cellsRaw, cellsOuter>>
  /\ UpdateKeeps

NextSteps ==
  \/ \E p \in Positions : StepMapClick(p) /\ UNCHANGED <<clipVars, log>>
  \/ \E ds \in Datasets : \E rows \in Responses(ds) : StepStationsLoaded(ds, rows) /\ UNCHANGED <<clipVars, log>>
  \/ \E data \in ConstraintFiles : StepConstraintsLoaded(data) /\ UNCHANGED <<clipVars, log>>
  \/ StepToggleConstraints /\ UNCHANGED <<clipVars, log>>
  \/ UpdateTest /\ UNCHANGED <<clipVars, log>>
  \/ UpdateFilter /\ UNCHANGED <<clipVars, log>>
  \/ UpdateVoronoi /\ UNCHANGED <<clipVars, log>>
  \/ UpdateClip /\ UNCHANGED <<clipVars, log>>
  \/ UpdateMinus /\ UNCHANGED <<clipVars, log>>
  \/ UpdateDraw /\ UNCHANGED <<clipVars, log>>
SpecSteps == Init /\ [][NextSteps]_vars

\* ------------------------------------------- main.ts: the clipping helpers
Reverse(s) == [i \in 1..Len(s) |-> s[Len(s) + 1 - i]]
RECURSIVE SumTo(_, _)
SumTo(f, n) == IF n = 0 THEN 0 ELSE f[n] + SumTo(f, n - 1)

\* closePolygons on one array: push polygon[0] unless it is, as an object,
\* the last element (both are undefined in an empty array)
closePolygon(a) ==
  IF Len(a.pts) <= 1 \/ a.closedRef THEN a
  ELSE Arr(Append(a.pts, a.pts[1]), TRUE)
closePolygons(polygons) == SeqMap(closePolygon, polygons)

\* turf.polygon([ring]) throws unless the ring has 4 or more positions and
\* its first and last positions are equal
turfPolygonThrows(a) == Len(a.pts) < 4 \/ a.pts[1] # a.pts[Len(a.pts)]
\* turf.booleanClockwise: the sum over the edges of (cur[0] - prev[0]) *
\* (cur[1] + prev[1]) is positive
booleanClockwise(pts) ==
  SumTo([i \in 1..(Len(pts) - 1) |->
           (pts[i + 1][1] - pts[i][1]) * (pts[i + 1][2] + pts[i][2])], Len(pts) - 1) > 0
\* the feature holds the array itself, so reverse() reorders the argument
normalizeWinding(a) == IF booleanClockwise(a.pts) THEN a ELSE Arr(Reverse(a.pts), a.closedRef)
createTurfPolygons(p1, p2) ==
  IF turfPolygonThrows(p1) \/ turfPolygonThrows(p2)
  THEN [threw |-> TRUE, tpolygon1 |-> p1, tpolygon2 |-> p2]
  ELSE [threw |-> FALSE, tpolygon1 |-> normalizeWinding(p1), tpolygon2 |-> normalizeWinding(p2)]
\* turf.intersect of two rings: null, or a new closed ring
turfIntersect(A, B) ==
  IF Overlap(A, B)
  THEN [null |-> FALSE,
        ring |-> gutils_polygonClose(BoxRing(BoxMeet(Extent(PointSet(A)), Extent(PointSet(B)))))]
  ELSE [null |-> TRUE, ring |-> <<>>]
\* turf.difference(A, M) for M = A /\ B: null when nothing is left, a new
\* closed ring when one rectangle is left, otherwise a MultiPolygon
turfDifference(A, M) ==
  LET d == gutils_polygonMinus(A, M, "absent")
  IN  IF Extent(PointSet(A)) = Extent(PointSet(M)) THEN [kind |-> "null", ring |-> <<>>]
      ELSE IF d.absent THEN [kind |-> "multi", ring |-> <<>>]
      ELSE [kind |-> "polygon", ring |-> d.ring]

Returned(p1, p2, kind, pts, alias, h) ==
  [polygon1 |-> p1, polygon2 |-> p2, handed |-> h,
   ret |-> [kind |-> kind, pts |-> pts, alias |-> alias]]

\* returns a new polygon with the intersection of the polygon1 in polygon2
polygonIntersection(p1, p2) ==
  LET c == closePolygons(<<p1, p2>>)
  IN  IF Len(c[1].pts) < 3 \/ Len(c[2].pts) < 3
      THEN Returned(c[1], c[2], "undefined", <<>>, "none", FALSE)
      ELSE LET t == createTurfPolygons(c[1], c[2])
               intersection == turfIntersect(t.tpolygon1.pts, t.tpolygon2.pts)
           IN  IF t.threw THEN Returned(c[1], c[2], "throw", <<>>, "none", TRUE)
               ELSE IF intersection.null
                    THEN Returned(t.tpolygon1, t.tpolygon2, "array", <<>>, "new", TRUE)
               ELSE Returned(t.tpolygon1, t.tpolygon2, "array", intersection.ring, "new", TRUE)

\* removes the intersection of the polygon2 in polygon1
removeIntersection(p1, p2) ==
  LET c == closePolygons(<<p1, p2>>)
  IN  IF Len(c[1].pts) < 3 \/ Len(c[2].pts) < 3
      THEN Returned(c[1], c[2], "undefined", <<>>, "none", FALSE)
      ELSE LET t == createTurfPolygons(c[1], c[2])
               intersection == turfIntersect(t.tpolygon1.pts, t.tpolygon2.pts)
               difference == turfDifference(t.tpolygon1.pts, intersection.ring)
           IN  IF t.threw THEN Returned(c[1], c[2], "throw", <<>>, "none", TRUE)
               ELSE IF intersection.null
                    THEN Returned(t.tpolygon1, t.tpolygon2, "array", t.tpolygon1.pts, "polygon1", TRUE)
               ELSE IF difference.kind = "null"
                    THEN Returned(t.tpolygon1, t.tpolygon2, "throw", <<>>, "none", TRUE)
               ELSE IF difference.kind = "multi"
                    THEN Returned(t.tpolygon1, t.tpolygon2, "nested", <<>>, "new", TRUE)
               ELSE Returned(t.tpolygon1, t.tpolygon2, "array", difference.ring, "new", TRUE)

\* arrays handed to the two functions
PtA == <<0, 0>>
PtB == <<6, 2>>
EastRect == <<<<4, 0>>, <<4, 2>>, <<8, 2>>, <<8, 0>>>>
TestArrays ==
  { Arr(<<>>, FALSE), Arr(<<PtA>>, FALSE), Arr(<<PtA, PtB>>, FALSE),
    Arr(<<PtA, PtB, PtA>>, FALSE), Arr(<<PtA, PtB, PtB>>, FALSE),
    Arr(OuterRect, FALSE), Arr(Reverse(OuterRect), FALSE),
    Arr(Append(OuterRect, OuterRect[1]), FALSE), Arr(Append(OuterRect, OuterRect[1]), TRUE),
    Arr(InnerRect, FALSE), Arr(Reverse(InnerRect), FALSE),
    Arr(EastRect, FALSE) }

InitClip ==
  /\ AppInit
  /\ polygon1 \in TestArrays /\ polygon2 \in TestArrays
  /\ arg1 = polygon1 /\ arg2 = polygon2
  /\ ret = NotCalled /\ handed = FALSE /\ called = "none"

Call(name, r) ==
  /\ called' = name
  /\ arg1' = polygon1 /\ arg2' = polygon2
  /\ polygon1' = r.polygon1 /\ polygon2' = r.polygon2
  /\ ret' = r.ret /\ handed' = r.handed
  /\ UNCHANGED <<appVars, stepVars, log>>
CallPolygonIntersection ==
  \E r \in {polygonIntersection(polygon1, polygon2)} : Call("polygonIntersection", r)
CallRemoveIntersection ==
  \E r \in {removeIntersection(polygon1, polygon2)} : Call("removeIntersection", r)

NextClip == CallPolygonIntersection \/ CallRemoveIntersection
SpecClip == InitClip /\ [][NextClip]_vars

\* ------------------------------- main.ts: closing and orienting (SpecRing)
\* closePolygons and createTurfPolygons called on their own, on the arrays
\* above and on every 4-position ring over a small grid whose last position
\* has the coordinates of the first, as one object or as two
MaxCoord == 2
Grid == (0..MaxCoord) \X (0..1)
GridRings ==
  {Arr(<<a, b, c, a>>, r) : <<a, b, c>> \in Grid \X Grid \X Grid, r \in BOOLEAN}
InitRing ==
  /\ AppInit
  /\ polygon1 \in TestArrays \cup GridRings
  /\ polygon2 \in TestArrays
  /\ arg1 = polygon1 /\ arg2 = polygon2
  /\ ret = NotCalled /\ handed = FALSE /\ called = "none"
\* closePolygons([polygon1, polygon2]) returns nothing
CallClosePolygons ==
  \E c \in {closePolygons(<<polygon1, polygon2>>)} :
    Call("closePolygons", Returned(c[1], c[2], "undefined", <<>>, "none", FALSE))
\* createTurfPolygons(polygon1, polygon2) throws or returns the two features
CallCreateTurfPolygons ==
  \E t \in {createTurfPolygons(polygon1, polygon2)} :
    Call("createTurfPolygons",
         Returned(t.tpolygon1, t.tpolygon2,
                  IF t.threw THEN "throw" ELSE "features", <<>>, "none", FALSE))
NextRing == CallClosePolygons \/ CallCreateTurfPolygons
SpecRing == InitRing /\ [][NextRing]_vars

\* ------------------------------------ main.ts: the application (SpecMain)
\* The globals of main.ts are held in stations, constraints, voronoiPolygons
\* and pending; polygons are arrays [pts, closedRef] here, because the
\* clipping helpers change them in place.
\* half-width of the extent d3.voronoi() clips its cells to (1e6 in d3,
\* scaled to the grid)
D3Extent == 100
D3Box == [lat1 |-> 0 - D3Extent, lat2 |-> D3Extent, lng1 |-> 0 - D3Extent, lng2 |-> D3Extent]
\* voronoi(): one open ring of new points per station, in station order
d3Polygons(positions) ==
  [i \in 1..Len(positions) |->
     Arr(voronoiCell(positions[i], PointSet(positions), D3Box), FALSE)]
\* the element of a one-element set
Only(S) == CHOOSE x \in S : TRUE
\* first loop of applyConstraints, from cell i on; r is what
\* polygonIntersection(voronoiPolygons[i], constraints.outer) gave: [] is
\* truthy and is installed, undefined leaves the cell (closed in place by
\* the call), an exception ends the loop
RECURSIVE clipLoop(_, _, _)
clipStep(cells, outer, i, r) ==
  IF r.ret.kind = "throw"
  THEN [cells |-> [cells EXCEPT ![i] = r.polygon1], outer |-> r.polygon2, threw |-> TRUE]
  ELSE Only({clipLoop(c, r.polygon2, i + 1) :
               c \in {[cells EXCEPT ![i] = IF r.ret.kind = "array"
                                           THEN Arr(r.ret.pts, FALSE)
                                           ELSE r.polygon1]}})
clipLoop(cells, outer, i) ==
  IF i > Len(cells) THEN [cells |-> cells, outer |-> outer, threw |-> FALSE]
  ELSE Only({clipStep(cells, outer, i, r) : r \in {polygonIntersection(cells[i], outer)}})
\* second loop of applyConstraints, from cell i and obstacle j on; r is what
\* removeIntersection(voronoiPolygons[i], constraints.inner[j]) gave; the
\* first element of a MultiPolygon's coordinates is an array of one ring
RECURSIVE minusLoop(_, _, _, _)
minusStep(cells, inner, i, j, r) ==
  IF r.ret.kind = "throw"
  THEN [cells |-> [cells EXCEPT ![i] = r.polygon1],
        inner |-> [inner EXCEPT ![j] = r.polygon2], threw |-> TRUE]
  ELSE Only({minusLoop(c, n, i, j + 1) :
               c \in {[cells EXCEPT ![i] =
                         IF r.ret.kind = "array" /\ r.ret.alias = "new" THEN Arr(r.ret.pts, FALSE)
                         ELSE IF r.ret.kind = "nested" THEN Arr(<<r.ret.pts>>, TRUE)
                         ELSE r.polygon1]},
               n \in {[inner EXCEPT ![j] = r.polygon2]}})
minusLoop(cells, inner, i, j) ==
  IF i > Len(cells) THEN [cells |-> cells, inner |-> inner, threw |-> FALSE]
  ELSE IF j > Len(inner) THEN minusLoop(cells, inner, i + 1, 1)
  ELSE Only({minusStep(cells, inner, i, j, r) : r \in {removeIntersection(cells[i], inner[j])}})
\* the end of applyConstraints, m being what the second loop left: 'remove
\* null polygons', unless an exception has ended the function before
removeNull(outer, m) ==
  [voronoiPolygons |-> IF m.threw THEN m.cells
                       ELSE SelectSeq(m.cells, LAMBDA polygon : Len(polygon.pts) > 0),
   threw |-> m.threw, outer |-> outer, inner |-> m.inner]
\* applyConstraints from its second loop on, c being what the first left
afterClip(c, inner) ==
  IF c.threw
  THEN [voronoiPolygons |-> c.cells, threw |-> TRUE, outer |-> c.outer, inner |-> inner]
  ELSE Only({removeNull(c.outer, m) : m \in {minusLoop(c.cells, inner, 1, 1)}})
applyConstraints(cells, cons) ==
  Only({afterClip(c, cons.inner) : c \in {clipLoop(cells, cons.outer, 1)}})
\* redraw(): voronoi(); applyConstraints(); then drawing
redraw(st, cons) ==
  Only({applyConstraints(cells, cons) : cells \in {d3Polygons(SeqMap(Pos, st))}})
Redrawn(st, cons) ==
  \E r \in {redraw(st, cons)} :
    /\ stations' = st
    /\ voronoiPolygons' = r.voronoiPolygons
    /\ constraints' = [outer |-> r.outer, inner |-> r.inner]
    /\ threw' = r.threw
    /\ ran' = "redraw"
    /\ UNCHANGED <<boolMarkers, boolConstraints, dataset, markers, filterIn,
                   cellsRaw, cellsOuter, missed, facilities>>
    /\ UNCHANGED <<clipVars, stepVars, log>>

\* contents of the constraints file and of the station feed
SmallRect == <<<<0, 0>>, <<0, 2>>, <<4, 2>>, <<4, 0>>>>
\* (every obstacle comes with an outer polygon of its width, so that what a
\* subtraction leaves of a cell is nothing, one rectangle or two)
MainFiles ==
  { [outer |-> OuterRect, inner |-> <<InnerRect>>],
    [outer |-> OuterRect, inner |-> <<>>],
    [outer |-> SmallRect, inner |-> <<InnerRect>>],
    [outer |-> SmallRect, inner |-> <<>>] }
MainFeeds == {BikeRows, MetroRows, <<>>}
\* init(); loadConstraints(); loadStations(dataset)
InitMain ==
  /\ stations = <<>>
  /\ constraints = [outer |-> Arr(<<>>, FALSE), inner |-> <<>>]
  /\ voronoiPolygons = <<>>
  /\ pending = {"constraints", "bike"}
  /\ boolMarkers = TRUE /\ boolConstraints = FALSE /\ dataset = "bike"
  /\ markers = {} /\ facilities = {}
  /\ ran = "none" /\ filterIn = <<>> /\ cellsRaw = <<>> /\ cellsOuter = <<>>
  /\ missed = FALSE /\ threw = FALSE
  /\ ClipIdle /\ StepIdle /\ log = <<>>
\* a click on a spot that carries no station yet
onMapClick(p) ==
  /\ p \notin {Pos(stations[i]) : i \in 1..Len(stations)}
  /\ Redrawn(Append(stations, StationAt(p)), constraints)
  /\ UNCHANGED pending
\* the callback of loadStations pushes the rows (none of them a station
\* already) onto the list
MainStationsLoaded(rows) ==
  /\ "bike" \in pending
  /\ PointSet(rows) \cap {Pos(stations[i]) : i \in 1..Len(stations)} = {}
  /\ pending' = pending \ {"bike"}
  /\ Redrawn(stations \o SeqMap(StationAt, rows), constraints)
\* the callback of loadConstraints maps the points to pairs
MainConstraintsLoaded(data) ==
  /\ "constraints" \in pending
  /\ pending' = pending \ {"constraints"}
  /\ Redrawn(stations, [outer |-> Arr(data.outer, FALSE),
                        inner |-> SeqMap(LAMBDA polygon : Arr(polygon, FALSE), data.inner)])
NextMain ==
  \/ \E p \in Positions : onMapClick(p)
  \/ \E rows \in MainFeeds : MainStationsLoaded(rows)
  \/ \E data \in MainFiles : MainConstraintsLoaded(data)
SpecMain == InitMain /\ [][NextMain]_vars

\* ------------------------------------------------------------------ claims
StationSet == {Pos(stations[i]) : i \in 1..Len(stations)}
InInner(p) == \E j \in 1..Len(constraints.inner) : gutils_pointInPolygon(p, constraints.inner[j])
Allowed(s) == gutils_pointInPolygon(Pos(s), constraints.outer) /\ ~InInner(Pos(s))
\* every vertex of the cell lies in the closed rectangle O
Covers(O, cell) ==
  LET b == Extent(PointSet(O))
  IN  \A v \in PointSet(cell) :
        b.lat1 <= Lat(v) /\ Lat(v) <= b.lat2 /\ b.lng1 <= Lng(v) /\ Lng(v) <= b.lng2

\* C1 (as stated): after applyConstraintsToPoints the list is exactly the
\* stations that are inside the outer polygon (when it is non-empty) and
\* inside no inner polygon, in their order
C1_AsStated ==
  ran = "on" =>
    stations = SelectSeq(filterIn,
                 LAMBDA s : /\ ~InInner(Pos(s))
                            /\ (Len(constraints.outer) = 0
                                \/ gutils_pointInPolygon(Pos(s), constraints.outer)))
\* C1 (amended): with a non-empty outer polygon the list left by
\* applyConstraintsToPoints is exactly the stations inside the outer polygon
\* and inside no inner polygon, in their order, and no cell exists beyond
\* those stations; with an empty outer polygon the list is left as it was
C1_FilterKeepsAllowed ==
  ran = "on" =>
    IF Len(constraints.outer) = 0 THEN stations = filterIn
    ELSE /\ stations = SelectSeq(filterIn, Allowed)
         /\ Len(voronoiPolygons) <= Len(stations)
C1_Witness ==
  /\ ran = "on" /\ Len(constraints.outer) > 0
  /\ \E i \in 1..Len(filterIn) : InInner(Pos(filterIn[i])) /\ Pos(filterIn[i]) \notin StationSet
  /\ Len(stations) >= 2

\* C2: with an empty outer polygon applyConstraintsToPoints leaves the
\* station list unchanged, whatever the inner polygons are
C2_EmptyOuterSkips ==
  (ran = "on" /\ Len(constraints.outer) = 0) => stations = filterIn
C2_Witness ==
  /\ ran = "on" /\ Len(constraints.outer) = 0 /\ Len(constraints.inner) > 0
  /\ \E i \in 1..Len(stations) : InInner(Pos(stations[i]))

\* C3: a cell whose intersection with the outer polygon is absent or has
\* fewer than 3 points is left as gutils.voronoi returned it, every other
\* cell is replaced by its intersection, and no cell is dropped
C3_FailedClipKeepsCell ==
  ran = "on" =>
    /\ Len(cellsOuter) = Len(cellsRaw)
    /\ \A i \in 1..Len(cellsRaw) : \A e \in EmptyKinds :
         LET r == gutils_polygonIntersection(cellsRaw[i], constraints.outer, e)
         IN  IF r.absent \/ Len(r.ring) < 3
             THEN cellsOuter[i] = cellsRaw[i]
             ELSE cellsOuter[i] = r.ring
C3_Witness ==
  /\ ran = "on" /\ Len(cellsRaw) >= 2
  /\ \A i \in 1..Len(cellsRaw) :
       /\ gutils_polygonIntersection(cellsRaw[i], constraints.outer, "absent").absent
       /\ cellsOuter[i] = cellsRaw[i] /\ Len(cellsRaw[i]) >= 3

\* C4 (as stated): with constraints active and a non-empty outer polygon,
\* every cell at the end of update() is contained in the outer polygon
C4_AsStated ==
  (boolConstraints /\ ran # "none" /\ IsBox(constraints.outer)) =>
    \A i \in 1..Len(voronoiPolygons) : Covers(constraints.outer, voronoiPolygons[i])

\* C5 (as stated): with constraints active, no cell at the end of update()
\* overlaps the interior of an inner obstacle
C5_AsStated ==
  (boolConstraints /\ ran # "none") =>
    \A i \in 1..Len(voronoiPolygons) : \A j \in 1..Len(constraints.inner) :
      ~Overlap(voronoiPolygons[i], constraints.inner[j])

\* C6 (as stated): a handler whose findIndex matches no station changes no
\* station and surfaces the failure
C6_AsStated == [][missed' => (stations' = stations /\ threw')]_vars

\* C7 (as stated): with constraints inactive, every station loaded or added
\* and not removed or replaced is in the list after update(), and the
\* stations get one cell each whenever the generator yields cells at all
C7_AsStated ==
  (~boolConstraints /\ ran # "none") =>
    /\ facilities \subseteq StationSet
    /\ Len(stations) >= 2 => Len(voronoiPolygons) = Len(stations)

\* C8 (as stated): after update() ran on an empty station list the cell list
\* is empty
C8_AsStated == ran = "early" => voronoiPolygons = <<>>

\* C9 (as stated): a call leaves both argument arrays as they were and
\* returns a new array or an absent value, never an argument
C9_AsStated ==
  called # "none" =>
    /\ polygon1.pts = arg1.pts /\ polygon2.pts = arg2.pts
    /\ ret.alias # "polygon1" /\ ret.alias # "polygon2"

\* number of distinct points of the array once closed
DistinctClosed(a) == Cardinality(PointSet(closePolygon(a).pts))
\* C10 (as stated): when an argument has fewer than 3 distinct points after
\* closing, the call returns an empty or absent result and hands nothing to
\* turf
C10_AsStated ==
  (called # "none" /\ (DistinctClosed(arg1) < 3 \/ DistinctClosed(arg2) < 3)) =>
    /\ ~handed
    /\ ret.kind = "undefined" \/ (ret.kind = "array" /\ ret.pts = <<>>)

\* the last position of the array has the coordinates of the first
ValueClosed(a) == Len(a.pts) = 0 \/ a.pts[1] = a.pts[Len(a.pts)]
\* C11 (as stated): closePolygons leaves a ring alone whose last point has
\* the coordinates of its first, also when the two are separate objects,
\* and closing a ring that closePolygons has closed changes nothing
C11_AsStated ==
  called = "closePolygons" =>
    /\ ValueClosed(arg1) => polygon1.pts = arg1.pts
    /\ ValueClosed(arg2) => polygon2.pts = arg2.pts
    /\ closePolygon(polygon1) = polygon1 /\ closePolygon(polygon2) = polygon2

\* C12 (as stated): after createTurfPolygons has oriented a closed ring,
\* orienting it once more leaves the point sequence as it is, and the ring
\* is clockwise; this for rings of zero signed area too
C12_AsStated ==
  (called = "createTurfPolygons" /\ ret.kind = "features") =>
    /\ normalizeWinding(polygon1).pts = polygon1.pts
    /\ normalizeWinding(polygon2).pts = polygon2.pts
    /\ booleanClockwise(polygon1.pts) /\ booleanClockwise(polygon2.pts)

\* the clipper's empty result e is one the last update() can have met: the
\* cells it left are those that e gives
MetEmpty(e) ==
  ran = "on" => voronoiPolygons = applyConstraintsToVoronoi(cellsRaw, constraints, e).final
\* C13: update() run once more right after an update(), with no event in
\* between, leaves stations and voronoiPolygons as the first run left them
\* (constraints is never written by update()), with constraints active or
\* inactive
C13_UpdateTwice ==
  ran # "none" =>
    /\ \E e \in EmptyKinds : MetEmpty(e)
    /\ \A e \in EmptyKinds :
         MetEmpty(e) =>
           \E u \in {update(stations, constraints, boolConstraints, boolMarkers, e)} :
             /\ u.stations = stations
             /\ u.voronoiPolygons = voronoiPolygons
C13_Witness ==
  /\ ran = "on" /\ boolConstraints
  /\ Len(stations) < Len(filterIn) /\ Len(voronoiPolygons) >= 2
  /\ voronoiPolygons # cellsRaw /\ voronoiPolygons # cellsOuter

\* C14 (as stated): after redraw() has run to its end, voronoiPolygons has
\* one entry per station and entry i is the cell around station i, also
\* when the cell of a station has nothing in common with the outer polygon
C14_AsStated ==
  (ran = "redraw" /\ ~threw) =>
    /\ Len(voronoiPolygons) = Len(stations)
    /\ \A i \in 1..Len(stations) :
         Len(voronoiPolygons[i].pts) >= 3 =>
           Covers(voronoiCell(Pos(stations[i]), StationSet, D3Box), voronoiPolygons[i].pts)

\* the cell the first loop makes of cell k of the diagram (the same for
\* either representation of an empty intersection)
OuterClipped(k) == clipOuter(cellsRaw[k], constraints.outer, "absent")
\* C15: inside update() the statements run in the order filter, diagram,
\* outer clip of every cell, subtraction of the obstacles: the diagram is
\* made from the filtered list, a cell the first loop has not reached is
\* as the diagram gave it, a cell the second loop has not reached is the
\* outer clip of its diagram cell; with constraints inactive update() is
\* never at the filter nor in a loop
C15_StageOrder ==
  /\ pc \in {"filter", "clip", "minus"} => boolConstraints
  /\ (pc \in {"voronoi", "clip", "minus"} /\ boolConstraints) =>
       stations = applyConstraintsToPoints(filterIn, constraints)
  /\ pc \in {"clip", "minus"} =>
       /\ cellsRaw = gutils_voronoi(SeqMap(Pos, stations), constraints.outer)
       /\ Len(voronoiPolygons) = Len(cellsRaw)
  /\ pc = "clip" =>
       \A k \in 1..Len(voronoiPolygons) :
         voronoiPolygons[k] = IF k <= loopI THEN OuterClipped(k) ELSE cellsRaw[k]
  /\ pc = "minus" =>
       \A k \in 1..Len(voronoiPolygons) :
         (k > loopI + 1 \/ (k = loopI + 1 /\ loopJ = 0)) => voronoiPolygons[k] = OuterClipped(k)
C15_Witness ==
  /\ pc = "minus" /\ loopI = 0 /\ loopJ = 0
  /\ Len(stations) < Len(filterIn) /\ Len(voronoiPolygons) >= 2
  /\ Len(constraints.inner) > 0
  /\ \A k \in 1..Len(voronoiPolygons) :
       voronoiPolygons[k] # cellsRaw[k] /\ Overlap(voronoiPolygons[k], constraints.inner[1])

\* the point lies strictly inside the rectangle
InsideBox(p, poly) ==
  LET b == Extent(PointSet(poly))
  IN  b.lat1 < Lat(p) /\ Lat(p) < b.lat2 /\ b.lng1 < Lng(p) /\ Lng(p) < b.lng2
\* C16: after an update() with constraints active and a non-empty outer
\* polygon, every station of the list is inside the outer polygon and
\* outside every inner polygon, whatever handlers ran before
C16_StationsWithinConstraints ==
  (boolConstraints /\ ran # "none" /\ Len(constraints.outer) > 0) =>
    \A i \in 1..Len(stations) :
      /\ InsideBox(Pos(stations[i]), constraints.outer)
      /\ \A j \in 1..Len(constraints.inner) : ~InsideBox(Pos(stations[i]), constraints.inner[j])
C16_Witness ==
  /\ boolConstraints /\ ran = "on" /\ Len(constraints.outer) > 0
  /\ Len(stations) >= 1
  /\ \E i \in 1..Len(filterIn) : ~InsideBox(Pos(filterIn[i]), constraints.outer)
  /\ \E i \in 1..Len(filterIn) : InInner(Pos(filterIn[i]))

\* C17 (as stated): every marker on the map stands at a station of the
\* list, with markers shown every station has its marker, and no handler
\* fired from a marker finds index -1, also after the list became empty
C17_AsStated ==
  /\ markers \subseteq StationSet
  /\ boolMarkers => StationSet \subseteq markers
  /\ ~missed

\* the last four entries of log: both load buttons were pressed, one after
\* the other, and then the callbacks of the two loads ran
BothPressedThenLoaded ==
  /\ Len(log) >= 4
  /\ LET n == Len(log)
     IN  /\ log[n - 3].ev = "press" /\ log[n - 2].ev = "press"
         /\ log[n - 3].ds # log[n - 2].ds
         /\ log[n - 1].ev = "stations" /\ log[n].ev = "stations"
         /\ log[n - 1].ds # log[n].ds
\* the station list is what update() makes of the rows
Holds(rows) ==
  stations = IF boolConstraints /\ Len(rows) > 0
             THEN applyConstraintsToPoints(SeqMap(StationAt, rows), constraints)
             ELSE SeqMap(StationAt, rows)
\* C18 (as stated): when both load buttons were pressed before either load
\* completed, then after both callbacks the station list holds the rows of
\* the dataset that the global dataset names, in whichever order the two
\* responses arrived
C18_AsStated ==
  BothPressedThenLoaded => \E rows \in Responses(dataset) : Holds(rows)

\* log holds the two start-up callbacks and nothing else
StartupLoaded ==
  /\ Len(log) = 2
  /\ {log[1].ev, log[2].ev} = {"constraints", "stations"}
StartupRows == IF log[1].ev = "stations" THEN log[1].data ELSE log[2].data
StartupFile == IF log[1].ev = "constraints" THEN log[1].data ELSE log[2].data
\* C19: once the two start-up callbacks have run, with the constraints flag
\* fixed and no other handler in between, stations, constraints and
\* voronoiPolygons are what one update() makes of the loaded rows under the
\* loaded constraints, so they are the same whichever callback ran first
C19_StartupConfluent ==
  StartupLoaded =>
    /\ constraints = [outer |-> gutils_polygonClose(StartupFile.outer),
                      inner |-> SeqMap(gutils_polygonClose, StartupFile.inner)]
    /\ \E e \in EmptyKinds : MetEmpty(e)
    /\ \A e \in EmptyKinds :
         MetEmpty(e) =>
           IF Len(StartupRows) = 0
           THEN stations = <<>> /\ voronoiPolygons = <<>>
           ELSE \E u \in {update(SeqMap(StationAt, StartupRows), constraints,
                                  boolConstraints, boolMarkers, e)} :
                  stations = u.stations /\ voronoiPolygons = u.voronoiPolygons
C19_Witness ==
  /\ StartupLoaded /\ log[1].ev = "stations" /\ boolConstraints
  /\ Len(stations) >= 2 /\ Len(stations) < Len(StartupRows)
  /\ Len(constraints.inner) > 0 /\ voronoiPolygons # cellsRaw
====
